---- MODULE Spec2Model ----
(***************************************************************************)
(* The persistence codec of the post-flop solver: Encode / Decode of       *)
(* PostFlopGame and PostFlopNode (src/game/serialization.rs).              *)
(*                                                                         *)
(* The byte stream is modelled at the granularity of one token per encoded *)
(* value: [f |-> the field the encoder wrote, t |-> its wire type,         *)
(* v |-> its value].  The decoder never looks at f: it reads the next      *)
(* token as the type its own code asks for.  Raw pointers are integers,    *)
(* ptr::null_mut() is 0, and a storage arena is [addr |-> the address of   *)
(* its heap buffer, data |-> its elements].                                *)
(***************************************************************************)
EXTENDS Integers, Sequences, FiniteSets, TLC

VARIABLES
    game,         \* the instance handed to encode (mode "encode"), or the instance the decoder's input was encoded from
    stream,       \* what the last encode call wrote to its sink
    input,        \* the decoder's input stream
    corrupt,      \* how the decoder's input differs from an encoder's output
    ACTION_BASE,  \* thread-local (primary-A base, primary-B base)
    IP_BASE,      \* thread-local in-position base
    CHANCE_BASE,  \* thread-local chance base
    mode,         \* "idle", "encode" or "decode": the running top-level call
    pc,           \* position inside the call
    fi,           \* index of the next field of DecodeOrder
    pos,          \* number of tokens the decoder has consumed
    nlen,         \* node count read from the stream
    dec,          \* the instance under construction in decode
    result,       \* "none", "Ok", "Err" or "panic"
    err,          \* the error returned
    trace,        \* the call's events, in order
    nodeLog,      \* per node encoded/decoded in this call: stream position, offsets used, bases read
    applied,      \* the arguments apply_history was called with
    entry         \* what the thread-local cells held when the call was entered

vars == << game, stream, input, corrupt, ACTION_BASE, IP_BASE, CHANCE_BASE, mode,
           pc, fi, pos, nlen, dec, result, err, trace, nodeLog, applied, entry >>

\* ---------------------------------------------------------------- bounds

MaxNodes == 2

\* ------------------------------------------------------------- constants

VERSION_STR == "2023-03-01"

NULL == 0

\* Lifecycle states, in the order the comparisons use.
Uninitialized == 0
MemoryAllocated == 1
TreeBuilt == 2
States == {Uninitialized, MemoryAllocated, TreeBuilt}

\* Vec::as_mut_ptr(): the address of an arena's buffer.  Buffers owned by the
\* instance being encoded and buffers materialised by decode are different
\* allocations; an empty default Vec has no buffer and a dangling, non-null
\* pointer.
DanglingAddr == NULL + 1

ArenaAddr(owner, arena) ==
    (IF owner = "enc" THEN 1000 ELSE 5000)
    + (CASE arena = "storage1" -> 100
         [] arena = "storage2" -> 200
         [] arena = "storage_ip" -> 300
         [] arena = "storage_chance" -> 400)

\* ------------------------------------------------------------ the nodes

is_terminal(node) == node.player = "terminal"
is_chance(node) == node.player = "chance"

NodeKinds == {"oop", "chance", "terminal"}

RECURSIVE SeqsUpTo(_, _)
SeqsUpTo(S, n) ==
    IF n = 0 THEN {<< >>}
    ELSE LET shorter == SeqsUpTo(S, n - 1)
         IN shorter \cup {Append(s, x) : s \in {q \in shorter : Len(q) = n - 1}, x \in S}

Shapes == SeqsUpTo(NodeKinds, MaxNodes) \ {<< >>}

CountBefore(shape, i, kinds) == Cardinality({j \in 1..(i - 1) : shape[j] \in kinds})

\* Elements a node of each kind owns in its arenas.
NumElements(kind) == IF kind = "terminal" THEN 0 ELSE IF kind = "chance" THEN 1 ELSE 2
NumElementsIp(kind) == IF kind = "oop" THEN 1 ELSE 0

\* The i-th node of a tree of the given shape.  Storage is laid out in node
\* order; the two primary arenas get the same offset, the in-position arena
\* its own.
MkNode(shape, i, allocated) ==
    LET kind == shape[i]
        offA == 2 * CountBefore(shape, i, {"oop"})
        offIp == CountBefore(shape, i, {"oop"})
        offCh == CountBefore(shape, i, {"chance"})
        owns == allocated /\ kind # "terminal"
    IN [ prev_action |-> i, player |-> kind, turn |-> 50 + i, river |-> 51 + i,
         is_locked |-> (i = 2), amount |-> 10 * i,
         children_offset |-> 1, num_children |-> Len(shape) - i,
         num_elements_ip |-> NumElementsIp(kind), num_elements |-> NumElements(kind),
         scale1 |-> i, scale2 |-> i + 1, scale3 |-> i + 2,
         storage1 |-> IF ~owns THEN NULL
                      ELSE IF kind = "chance" THEN ArenaAddr("enc", "storage_chance") + offCh
                      ELSE ArenaAddr("enc", "storage1") + offA,
         storage2 |-> IF owns /\ kind = "oop" THEN ArenaAddr("enc", "storage2") + offA ELSE NULL,
         storage3 |-> IF owns /\ kind = "oop" THEN ArenaAddr("enc", "storage_ip") + offIp ELSE NULL ]

ArenaData(n, tag) == [k \in 1..n |-> tag + k]

\* A solver instance in lifecycle state st whose tree has the given shape.
MkGame(st, shape, cached) ==
    LET allocated == st >= MemoryAllocated
        nA == IF allocated THEN 2 * CountBefore(shape, Len(shape) + 1, {"oop"}) ELSE 0
        nIp == IF allocated THEN CountBefore(shape, Len(shape) + 1, {"oop"}) ELSE 0
        nCh == IF allocated THEN CountBefore(shape, Len(shape) + 1, {"chance"}) ELSE 0
    IN [ version |-> VERSION_STR,
         tree_config |-> "config",
         added_lines |-> << "line_a" >>,
         removed_lines |-> << "line_r" >>,
         action_root |-> [config |-> "config", added |-> << "line_a" >>, removed |-> << "line_r" >>],
         state |-> st,
         card_config |-> "cards",
         num_combinations |-> 6,
         is_compression_enabled |-> FALSE,
         num_storage_actions |-> nA,
         num_storage_chances |-> nCh,
         misc_memory_usage |-> 8,
         storage1 |-> [addr |-> ArenaAddr("enc", "storage1"), data |-> ArenaData(nA, 100)],
         storage2 |-> [addr |-> ArenaAddr("enc", "storage2"), data |-> ArenaData(nA, 200)],
         storage_ip |-> [addr |-> ArenaAddr("enc", "storage_ip"), data |-> ArenaData(nIp, 300)],
         storage_chance |-> [addr |-> ArenaAddr("enc", "storage_chance"), data |-> ArenaData(nCh, 400)],
         locking_strategy |-> "locking",
         history |-> IF cached THEN << 1 >> ELSE << >>,
         is_normalized_weight_cached |-> cached,
         node_arena |-> [i \in 1..Len(shape) |-> MkNode(shape, i, allocated)] ]

Instances == {MkGame(st, shape, cached) : st \in States, shape \in Shapes, cached \in BOOLEAN}

\* Self { ..Default::default() } before any field is decoded.
DefaultGame ==
    [ version |-> "",
      tree_config |-> "",
      added_lines |-> << >>,
      removed_lines |-> << >>,
      action_root |-> [config |-> "", added |-> << >>, removed |-> << >>],
      state |-> Uninitialized,
      card_config |-> "",
      num_combinations |-> 0,
      is_compression_enabled |-> FALSE,
      num_storage_actions |-> 0,
      num_storage_chances |-> 0,
      misc_memory_usage |-> 0,
      storage1 |-> [addr |-> DanglingAddr, data |-> << >>],
      storage2 |-> [addr |-> DanglingAddr, data |-> << >>],
      storage_ip |-> [addr |-> DanglingAddr, data |-> << >>],
      storage_chance |-> [addr |-> DanglingAddr, data |-> << >>],
      locking_strategy |-> "",
      history |-> << >>,
      is_normalized_weight_cached |-> FALSE,
      node_arena |-> << >> ]

\* ------------------------------------------------------------ the stream

Arenas == {"storage1", "storage2", "storage_ip", "storage_chance"}

FieldType(f) ==
    CASE f = "version" -> "String"
      [] f = "tree_config" -> "TreeConfig"
      [] f \in {"added_lines", "removed_lines"} -> "Lines"
      [] f = "state" -> "State"
      [] f = "card_config" -> "CardConfig"
      [] f = "num_combinations" -> "f64"
      [] f \in {"is_compression_enabled", "is_normalized_weight_cached"} -> "bool"
      [] f \in {"num_storage_actions", "num_storage_chances", "misc_memory_usage"} -> "u64"
      [] f \in Arenas -> "bytes"
      [] f = "locking_strategy" -> "LockingStrategy"
      [] f = "history" -> "VecUsize"
      [] f = "node_arena" -> "len"

Token(f, t, v) == [f |-> f, t |-> t, v |-> v]

\* The thread-local cells, as one record.
Cells == [action |-> ACTION_BASE, ip |-> IP_BASE, chance |-> CHANCE_BASE]

NullCells == [action |-> << NULL, NULL >>, ip |-> NULL, chance |-> NULL]

\* ---------------------------------------------------------------- encode

\* PostFlopGame::encode, "store base pointers": what the three cells hold
\* after the c.set calls (cells: what they held before).
StoreBasesEncode(g, cells) ==
    [ action |-> IF g.state >= MemoryAllocated
                 THEN << g.storage1.addr, NULL >>
                 ELSE << NULL, NULL >>,
      ip |-> IF g.state >= MemoryAllocated THEN g.storage_ip.addr ELSE NULL,
      chance |-> IF g.state >= MemoryAllocated THEN g.storage_chance.addr ELSE NULL ]

\* The fields PostFlopGame::encode writes, in statement order.
EncodeOrder ==
    << "version", "tree_config", "added_lines", "removed_lines", "state",
       "card_config", "num_combinations", "is_compression_enabled",
       "num_storage_actions", "num_storage_chances", "misc_memory_usage",
       "storage1", "storage2", "storage_ip", "storage_chance",
       "locking_strategy", "history", "is_normalized_weight_cached",
       "node_arena" >>

\* One field of the instance as written: an arena is written as its
\* elements, the node arena starts with its length.
EncodeField(g, f) ==
    Token(f, FieldType(f),
          IF f = "version" THEN VERSION_STR
          ELSE IF f \in Arenas THEN g[f].data
          ELSE IF f = "node_arena" THEN Len(g.node_arena)
          ELSE g[f])

NodeScalars(node) ==
    [ prev_action |-> node.prev_action, player |-> node.player, turn |-> node.turn,
      river |-> node.river, is_locked |-> node.is_locked, amount |-> node.amount,
      children_offset |-> node.children_offset, num_children |-> node.num_children,
      num_elements_ip |-> node.num_elements_ip, num_elements |-> node.num_elements,
      scale1 |-> node.scale1, scale2 |-> node.scale2, scale3 |-> node.scale3 ]

\* Mutant: the null check of the node's storage is missing.
HasStorage_Always(node) == TRUE

\* The guard of the "pointer offset" block of PostFlopNode::encode.
HasStorage(node) == node.storage1 # NULL

\* PostFlopNode::encode: the tokens one node contributes.
NodeEncode(node, cells) ==
    << Token("scalars", "Scalars", NodeScalars(node)) >> \o
    ( IF HasStorage(node)
      THEN IF is_terminal(node) THEN << >>
           ELSE IF is_chance(node)
           THEN << Token("offset_chance", "isize", node.storage1 - cells.chance) >>
           ELSE << Token("offset", "isize", node.storage1 - cells.action[1]),
                   Token("offset_ip", "isize", node.storage3 - cells.ip) >>
      ELSE << >> )

\* The cells PostFlopNode::encode reads for one node.
NodeEncodeReads(node, cells) ==
    IF HasStorage(node)
    THEN IF is_terminal(node) THEN << >>
         ELSE IF is_chance(node)
         THEN << [b |-> "chance", v |-> cells.chance] >>
         ELSE << [b |-> "action1", v |-> cells.action[1]], [b |-> "ip", v |-> cells.ip] >>
    ELSE << >>

RECURSIVE EncodeNodes(_, _, _)
EncodeNodes(nodes, i, cells) ==
    IF i > Len(nodes) THEN << >>
    ELSE NodeEncode(nodes[i], cells) \o EncodeNodes(nodes, i + 1, cells)

\* Stream position of the first token of node i, and the log of all nodes.
RECURSIVE EncodeNodeLog(_, _, _, _)
EncodeNodeLog(nodes, i, at, cells) ==
    IF i > Len(nodes) THEN << >>
    ELSE LET toks == NodeEncode(nodes[i], cells)
         IN << [start |-> at, n |-> Len(toks) - 1, reads |-> NodeEncodeReads(nodes[i], cells)] >>
            \o EncodeNodeLog(nodes, i + 1, at + Len(toks), cells)

\* Everything PostFlopGame::encode writes once the cells hold `cells`.
EncodeGame(g, cells) ==
    [k \in 1..Len(EncodeOrder) |-> EncodeField(g, EncodeOrder[k])]
    \o EncodeNodes(g.node_arena, 1, cells)

Idle == pc = "idle"

\* One top-level call of PostFlopGame::encode.  The sink accepts the first
\* n tokens; a shorter n is an I/O failure of the sink, which `?` returns.
Encode ==
    /\ Idle
    /\ \E g \in Instances :
         LET cells == StoreBasesEncode(g, Cells)
             full == EncodeGame(g, cells)
             log == EncodeNodeLog(g.node_arena, 1, Len(EncodeOrder) + 1, cells)
         IN \E n \in 0..Len(full) :
              /\ game' = g
              /\ ACTION_BASE' = cells.action
              /\ IP_BASE' = cells.ip
              /\ CHANCE_BASE' = cells.chance
              /\ stream' = SubSeq(full, 1, n)
              /\ nodeLog' = SelectSeq(log, LAMBDA e : e.start <= n)
              /\ trace' = << [ev |-> "set_bases", arg |-> "encode"] >>
                          \o [k \in 1..n |-> [ev |-> "write", arg |-> full[k].f]]
              /\ result' = IF n = Len(full) THEN "Ok" ELSE "Err"
              /\ err' = IF n = Len(full) THEN "" ELSE "Io"
    /\ mode' = "encode"
    /\ pc' = "done"
    /\ input' = << >>
    /\ corrupt' = "none"
    /\ fi' = 1
    /\ pos' = 0
    /\ nlen' = 0
    /\ dec' = DefaultGame
    /\ applied' = << >>
    /\ entry' = Cells

\* ------------------------------------------------------- decoder's input

\* What a fresh thread's encode of g writes.
Serialized(g) == EncodeGame(g, StoreBasesEncode(g, NullCells))

\* The ways the stream handed to decode differs from what encode wrote:
\* unchanged, cut after n tokens, or one of its first four values altered.
Corruptions(full) ==
    {<< "none", 0 >>, << "tag", 0 >>, << "config", 0 >>, << "added", 0 >>, << "removed", 0 >>}
    \cup {<< "trunc", n >> : n \in 0..(Len(full) - 1)}

Altered(tok, kind) ==
    IF kind = "tag" /\ tok.f = "version" THEN [tok EXCEPT !.v = "2023-03-02"]
    ELSE IF kind = "config" /\ tok.f = "tree_config" THEN [tok EXCEPT !.v = "bad_config"]
    ELSE IF kind = "added" /\ tok.f = "added_lines" THEN [tok EXCEPT !.v = << "line_a", "bad_line" >>]
    ELSE IF kind = "removed" /\ tok.f = "removed_lines" THEN [tok EXCEPT !.v = << "bad_line" >>]
    ELSE tok

Corrupted(full, c) ==
    IF c[1] = "trunc" THEN SubSeq(full, 1, c[2])
    ELSE [k \in 1..Len(full) |-> Altered(full[k], c[1])]

\* A primitive of wire type ty can be decoded at position p of s.
CanRead(s, p, ty) == p <= Len(s) /\ s[p].t = ty

ReadError(s, p) == IF p > Len(s) THEN "UnexpectedEnd" ELSE "InvalidData"

\* ----------------------------------------------------------- tree builder

ActionTreeNewOk(config) == config # "bad_config"
LineOk(line) == line # "bad_line"

FirstBad(lines) ==
    IF \E k \in 1..Len(lines) : ~LineOk(lines[k])
    THEN CHOOSE k \in 1..Len(lines) : ~LineOk(lines[k]) /\ \A j \in 1..(k - 1) : LineOk(lines[j])
    ELSE Len(lines) + 1

AllOk(lines) == FirstBad(lines) > Len(lines)

\* ActionTree::new(..).unwrap(), add_line(..).unwrap() per added line,
\* remove_line(..).unwrap() per removed line, eject(): whether an unwrap
\* panicked, the builder calls made, and the ejected configuration and root.
RebuildActionTree(config, added, removed) ==
    LET okNew == ActionTreeNewOk(config)
        okAdd == okNew /\ AllOk(added)
        okRem == okAdd /\ AllOk(removed)
        nAdd == IF ~okNew THEN 0 ELSE IF AllOk(added) THEN Len(added) ELSE FirstBad(added)
        nRem == IF ~okAdd THEN 0 ELSE IF AllOk(removed) THEN Len(removed) ELSE FirstBad(removed)
    IN [ panicked |-> ~okRem,
         calls |-> << "new" >> \o [k \in 1..nAdd |-> "add_line"] \o [k \in 1..nRem |-> "remove_line"]
                   \o (IF okRem THEN << "eject" >> ELSE << >>),
         config |-> config,
         root |-> [config |-> config, added |-> added, removed |-> removed] ]

\* ---------------------------------------------------------------- decode

\* Mutant: decode reads the in-position arena before primary-B.
DecodeOrder_Swapped ==
    << "version", "tree_config", "added_lines", "removed_lines", "state",
       "card_config", "num_combinations", "is_compression_enabled",
       "num_storage_actions", "num_storage_chances", "misc_memory_usage",
       "storage1", "storage_ip", "storage2", "storage_chance",
       "locking_strategy", "history", "is_normalized_weight_cached",
       "node_arena" >>

\* The fields PostFlopGame::decode reads, in evaluation order.
DecodeOrder ==
    << "version", "tree_config", "added_lines", "removed_lines", "state",
       "card_config", "num_combinations", "is_compression_enabled",
       "num_storage_actions", "num_storage_chances", "misc_memory_usage",
       "storage1", "storage2", "storage_ip", "storage_chance",
       "locking_strategy", "history", "is_normalized_weight_cached",
       "node_arena" >>

\* Mutant: the version is compared only after the tree configuration is read.
StepAfter_LateCheck(f) ==
    CASE f = "tree_config" -> "d_check"
      [] f = "removed_lines" -> "d_rebuild"
      [] f = "is_normalized_weight_cached" -> "d_bases"
      [] f = "node_arena" -> "d_node"
      [] OTHER -> "d_field"

\* Mutant: the bases are stored as soon as primary-A is decoded.
StepAfter_EarlyBases(f) ==
    CASE f = "version" -> "d_check"
      [] f = "removed_lines" -> "d_rebuild"
      [] f = "storage1" -> "d_bases"
      [] f = "node_arena" -> "d_node"
      [] OTHER -> "d_field"

\* What follows the read of field f in PostFlopGame::decode.
StepAfter(f) ==
    CASE f = "version" -> "d_check"
      [] f = "removed_lines" -> "d_rebuild"
      [] f = "is_normalized_weight_cached" -> "d_bases"
      [] f = "node_arena" -> "d_node"
      [] OTHER -> "d_field"

\* The value a decoded field holds: a decoded arena is a new buffer.
DecodeValue(f, v) ==
    IF f \in Arenas THEN [addr |-> ArenaAddr("dec", f), data |-> v]
    ELSE IF f = "node_arena" THEN << >>
    ELSE v

\* Mutant: the bases are stored whatever the lifecycle state.
StoreBasesDecode_Always(g, cells) ==
    [ action |-> << g.storage1.addr, g.storage2.addr >>,
      ip |-> g.storage_ip.addr,
      chance |-> g.storage_chance.addr ]

\* Mutant: below MemoryAllocated the cells are left as they were.
StoreBasesDecode_Stale(g, cells) ==
    IF g.state >= MemoryAllocated
    THEN [ action |-> << g.storage1.addr, g.storage2.addr >>,
           ip |-> g.storage_ip.addr,
           chance |-> g.storage_chance.addr ]
    ELSE cells

\* PostFlopGame::decode, "store base pointers".
StoreBasesDecode(g, cells) ==
    [ action |-> IF g.state >= MemoryAllocated
                 THEN << g.storage1.addr, g.storage2.addr >>
                 ELSE << NULL, NULL >>,
      ip |-> IF g.state >= MemoryAllocated THEN g.storage_ip.addr ELSE NULL,
      chance |-> IF g.state >= MemoryAllocated THEN g.storage_chance.addr ELSE NULL ]

\* Self { <scalars>, ..Default::default() }: the storage pointers are null.
ScalarsToNode(sc) ==
    [ prev_action |-> sc.prev_action, player |-> sc.player, turn |-> sc.turn,
      river |-> sc.river, is_locked |-> sc.is_locked, amount |-> sc.amount,
      children_offset |-> sc.children_offset, num_children |-> sc.num_children,
      num_elements_ip |-> sc.num_elements_ip, num_elements |-> sc.num_elements,
      scale1 |-> sc.scale1, scale2 |-> sc.scale2, scale3 |-> sc.scale3,
      storage1 |-> NULL, storage2 |-> NULL, storage3 |-> NULL ]

\* Mutant: the in-position reference is rebuilt from the primary offset.
ActionPointers_IpFromPrimary(node, base1, base2, base3, offset, offset_ip) ==
    [node EXCEPT !.storage1 = base1 + offset,
                 !.storage2 = base2 + offset,
                 !.storage3 = base3 + offset]

\* Mutant: the primary-B reference is rebuilt from the in-position offset.
ActionPointers_BFromIp(node, base1, base2, base3, offset, offset_ip) ==
    [node EXCEPT !.storage1 = base1 + offset,
                 !.storage2 = base2 + offset_ip,
                 !.storage3 = base3 + offset_ip]

\* The pointers PostFlopNode::decode gives an action node.
ActionPointers(node, base1, base2, base3, offset, offset_ip) ==
    [node EXCEPT !.storage1 = base1 + offset,
                 !.storage2 = base2 + offset,
                 !.storage3 = base3 + offset_ip]

\* PostFlopNode::decode of the node whose first token is at position p:
\* ok, the error otherwise, the node, the offsets consumed, the cells read.
NodeDecode(s, p, cells) ==
    IF ~CanRead(s, p, "Scalars")
    THEN [ok |-> FALSE, err |-> ReadError(s, p), node |-> << >>, n |-> 0, reads |-> << >>]
    ELSE
      LET node == ScalarsToNode(s[p].v)
      IN IF is_terminal(node)
         THEN [ok |-> TRUE, err |-> "", node |-> << node >>, n |-> 0, reads |-> << >>]
         ELSE IF is_chance(node)
         THEN LET base == cells.chance
                  reads == << [b |-> "chance", v |-> base] >>
              IN IF base = NULL
                 THEN [ok |-> TRUE, err |-> "", node |-> << node >>, n |-> 0, reads |-> reads]
                 ELSE IF ~CanRead(s, p + 1, "isize")
                 THEN [ok |-> FALSE, err |-> ReadError(s, p + 1), node |-> << >>, n |-> 0, reads |-> reads]
                 ELSE [ok |-> TRUE, err |-> "",
                       node |-> << [node EXCEPT !.storage1 = base + s[p + 1].v] >>,
                       n |-> 1, reads |-> reads]
         ELSE LET base3 == cells.ip
                  base1 == cells.action[1]
                  base2 == cells.action[2]
                  readsNull == << [b |-> "ip", v |-> base3] >>
                  reads == readsNull \o << [b |-> "action1", v |-> base1], [b |-> "action2", v |-> base2] >>
              IN IF base3 = NULL
                 THEN [ok |-> TRUE, err |-> "", node |-> << node >>, n |-> 0, reads |-> readsNull]
                 ELSE IF ~CanRead(s, p + 1, "isize")
                 THEN [ok |-> FALSE, err |-> ReadError(s, p + 1), node |-> << >>, n |-> 0, reads |-> reads]
                 ELSE IF ~CanRead(s, p + 2, "isize")
                 THEN [ok |-> FALSE, err |-> ReadError(s, p + 2), node |-> << >>, n |-> 1, reads |-> reads]
                 ELSE [ok |-> TRUE, err |-> "",
                       node |-> << ActionPointers(node, base1, base2, base3, s[p + 1].v, s[p + 2].v) >>,
                       n |-> 2, reads |-> reads]

\* Mutant: the initialisation is gated on MemoryAllocated.
InitCalls_FromAllocated(g) ==
    IF g.state >= MemoryAllocated
    THEN << "init_hands", "init_card_fields", "init_interpreter", "apply_history" >>
         \o (IF g.is_normalized_weight_cached THEN << "cache_normalized_weights" >> ELSE << >>)
    ELSE << >>

\* The "initialization" block of PostFlopGame::decode: the calls it makes.
InitCalls(g) ==
    IF g.state >= TreeBuilt
    THEN << "init_hands", "init_card_fields", "init_interpreter", "apply_history" >>
         \o (IF g.is_normalized_weight_cached THEN << "cache_normalized_weights" >> ELSE << >>)
    ELSE << >>

Events(kind, args) == [k \in 1..Len(args) |-> [ev |-> kind, arg |-> args[k]]]

\* `?` on a failed read, or `return Err(..)`.
ReturnErr(e) ==
    /\ result' = "Err"
    /\ err' = e
    /\ pc' = "done"

\* Entry of one top-level call of PostFlopGame::decode on a stream.
DecodeBegin ==
    /\ Idle
    /\ \E g \in Instances :
         \E c \in Corruptions(Serialized(g)) :
            /\ game' = g
            /\ input' = Corrupted(Serialized(g), c)
            /\ corrupt' = c[1]
    /\ mode' = "decode"
    /\ pc' = "d_field"
    /\ fi' = 1
    /\ pos' = 0
    /\ nlen' = 0
    /\ dec' = DefaultGame
    /\ result' = "none"
    /\ err' = ""
    /\ trace' = << >>
    /\ nodeLog' = << >>
    /\ applied' = << >>
    /\ entry' = Cells
    /\ stream' = << >>
    /\ UNCHANGED << ACTION_BASE, IP_BASE, CHANCE_BASE >>

\* <Type>::decode(decoder)? of the next field.
DecodeField ==
    /\ mode = "decode" /\ pc = "d_field"
    /\ LET f == DecodeOrder[fi]
       IN IF CanRead(input, pos + 1, FieldType(f))
          THEN /\ dec' = [dec EXCEPT ![f] = DecodeValue(f, input[pos + 1].v)]
               /\ nlen' = IF f = "node_arena" THEN input[pos + 1].v ELSE nlen
               /\ pos' = pos + 1
               /\ fi' = fi + 1
               /\ trace' = Append(trace, [ev |-> "read", arg |-> f])
               /\ pc' = StepAfter(f)
               /\ UNCHANGED << result, err >>
          ELSE /\ ReturnErr(ReadError(input, pos + 1))
               /\ UNCHANGED << dec, nlen, pos, fi, trace >>
    /\ UNCHANGED << game, stream, input, corrupt, ACTION_BASE, IP_BASE, CHANCE_BASE,
                    mode, nodeLog, applied, entry >>

\* The version check.
CheckVersion ==
    /\ mode = "decode" /\ pc = "d_check"
    /\ IF dec.version # VERSION_STR
       THEN ReturnErr("VersionMismatch")
       ELSE pc' = "d_field" /\ UNCHANGED << result, err >>
    /\ UNCHANGED << game, stream, input, corrupt, ACTION_BASE, IP_BASE, CHANCE_BASE,
                    mode, fi, pos, nlen, dec, trace, nodeLog, applied, entry >>

\* The action tree is rebuilt from the configuration and the edit log.
RebuildTree ==
    /\ mode = "decode" /\ pc = "d_rebuild"
    /\ LET r == RebuildActionTree(dec.tree_config, dec.added_lines, dec.removed_lines)
       IN /\ trace' = trace \o Events("builder", r.calls)
          /\ IF r.panicked
             THEN /\ result' = "panic"
                  /\ pc' = "done"
                  /\ UNCHANGED dec
             ELSE /\ dec' = [dec EXCEPT !.tree_config = r.config, !.action_root = r.root]
                  /\ pc' = "d_field"
                  /\ UNCHANGED result
    /\ UNCHANGED << game, stream, input, corrupt, ACTION_BASE, IP_BASE, CHANCE_BASE,
                    mode, fi, pos, nlen, err, nodeLog, applied, entry >>

\* The thread-local bases are set from the decoded instance.
DecodeStoreBases ==
    /\ mode = "decode" /\ pc = "d_bases"
    /\ LET cells == StoreBasesDecode(dec, Cells)
       IN /\ ACTION_BASE' = cells.action
          /\ IP_BASE' = cells.ip
          /\ CHANCE_BASE' = cells.chance
    /\ trace' = Append(trace, [ev |-> "set_bases", arg |-> "decode"])
    /\ pc' = "d_field"
    /\ UNCHANGED << game, stream, input, corrupt, mode, fi, pos, nlen, dec, result,
                    err, nodeLog, applied, entry >>

\* One element of Vec<PostFlopNode>::decode.
DecodeNode ==
    /\ mode = "decode" /\ pc = "d_node"
    /\ Len(dec.node_arena) < nlen
    /\ LET r == NodeDecode(input, pos + 1, Cells)
       IN /\ nodeLog' = Append(nodeLog, [start |-> pos + 1, n |-> r.n, reads |-> r.reads])
          /\ IF r.ok
             THEN /\ dec' = [dec EXCEPT !.node_arena = dec.node_arena \o r.node]
                  /\ pos' = pos + 1 + r.n
                  /\ trace' = Append(trace, [ev |-> "node", arg |-> "decode"])
                  /\ UNCHANGED << pc, result, err >>
             ELSE /\ ReturnErr(r.err)
                  /\ UNCHANGED << dec, pos, trace >>
    /\ UNCHANGED << game, stream, input, corrupt, ACTION_BASE, IP_BASE, CHANCE_BASE,
                    mode, fi, nlen, applied, entry >>

\* The node arena is complete: "initialization" and Ok(game).
DecodeInit ==
    /\ mode = "decode" /\ pc = "d_node"
    /\ Len(dec.node_arena) = nlen
    /\ trace' = trace \o Events("call", InitCalls(dec))
    /\ applied' = IF dec.state >= TreeBuilt THEN << dec.history >> ELSE << >>
    /\ result' = "Ok"
    /\ pc' = "done"
    /\ UNCHANGED << game, stream, input, corrupt, ACTION_BASE, IP_BASE, CHANCE_BASE,
                    mode, fi, pos, nlen, dec, err, nodeLog, entry >>

\* The call returns to its caller: its locals, its arguments and what it
\* returned are gone from the thread; the thread-local cells stay.
Return ==
    /\ pc = "done"
    /\ pc' = "idle"
    /\ mode' = "idle"
    /\ game' = DefaultGame
    /\ stream' = << >>
    /\ input' = << >>
    /\ corrupt' = "none"
    /\ fi' = 1
    /\ pos' = 0
    /\ nlen' = 0
    /\ dec' = DefaultGame
    /\ result' = "none"
    /\ err' = ""
    /\ trace' = << >>
    /\ nodeLog' = << >>
    /\ applied' = << >>
    /\ entry' = Cells
    /\ UNCHANGED << ACTION_BASE, IP_BASE, CHANCE_BASE >>

\* ------------------------------------------------------- specification

Init ==
    /\ game = DefaultGame
    /\ stream = << >>
    /\ input = << >>
    /\ corrupt = "none"
    /\ ACTION_BASE = << NULL, NULL >>
    /\ IP_BASE = NULL
    /\ CHANCE_BASE = NULL
    /\ mode = "idle"
    /\ pc = "idle"
    /\ fi = 1
    /\ pos = 0
    /\ nlen = 0
    /\ dec = DefaultGame
    /\ result = "none"
    /\ err = ""
    /\ trace = << >>
    /\ nodeLog = << >>
    /\ applied = << >>
    /\ entry = NullCells

Next ==
    \/ Encode
    \/ DecodeBegin
    \/ DecodeField
    \/ CheckVersion
    \/ RebuildTree
    \/ DecodeStoreBases
    \/ DecodeNode
    \/ DecodeInit
    \/ Return

Spec == Init /\ [][Next]_vars

\* ------------------------------------------------------------ properties

\* The arguments of the call's events of one kind, in order.
EventsOf(kind) ==
    LET sel == SelectSeq(trace, LAMBDA e : e.ev = kind)
    IN [k \in 1..Len(sel) |-> sel[k].arg]

IsPrefix(a, b) == Len(a) <= Len(b) /\ \A k \in 1..Len(a) : a[k] = b[k]

\* Some event of the kind (and argument) happened before position i of the trace.
Before(i, kind, arg) == \E j \in 1..(i - 1) : trace[j].ev = kind /\ trace[j].arg = arg

Happened(kind) == \E j \in 1..Len(trace) : trace[j].ev = kind

\* The value the stream carries for a header field.
Persisted(f) == input[CHOOSE k \in 1..Len(input) : input[k].f = f].v

ScalarFields ==
    {"prev_action", "player", "turn", "river", "is_locked", "amount", "children_offset",
     "num_children", "num_elements_ip", "num_elements", "scale1", "scale2", "scale3"}

\* The n elements an arena holds from the element a pointer refers to.
Content(arena, ptr, n) == [k \in 1..n |-> arena.data[(ptr - arena.addr) + k]]

SameStorage(a, b) ==
    IF is_chance(a)
    THEN /\ b.storage1 - dec.storage_chance.addr = a.storage1 - game.storage_chance.addr
         /\ Content(dec.storage_chance, b.storage1, b.num_elements)
              = Content(game.storage_chance, a.storage1, a.num_elements)
    ELSE /\ b.storage1 - dec.storage1.addr = a.storage1 - game.storage1.addr
         /\ b.storage2 - dec.storage2.addr = a.storage2 - game.storage2.addr
         /\ b.storage3 - dec.storage_ip.addr = a.storage3 - game.storage_ip.addr
         /\ Content(dec.storage1, b.storage1, b.num_elements)
              = Content(game.storage1, a.storage1, a.num_elements)
         /\ Content(dec.storage2, b.storage2, b.num_elements)
              = Content(game.storage2, a.storage2, a.num_elements)
         /\ Content(dec.storage_ip, b.storage3, b.num_elements_ip)
              = Content(game.storage_ip, a.storage3, a.num_elements_ip)

RoundTripDone == mode = "decode" /\ corrupt = "none" /\ pc = "done"

\* C1 (round trip): decoding the stream encode wrote for an instance, in any
\* lifecycle state, succeeds; the decoded instance has the same tree
\* configuration and edit log, as many nodes in the same order with equal
\* scalar fields, and every non-terminal node with storage refers to the same
\* offsets of the newly decoded arenas, where the same numbers are found.
C1_RoundTrip ==
    RoundTripDone =>
        /\ result = "Ok"
        /\ dec.tree_config = game.tree_config
        /\ dec.added_lines = game.added_lines
        /\ dec.removed_lines = game.removed_lines
        /\ Len(dec.node_arena) = Len(game.node_arena)
        /\ \A i \in 1..Len(game.node_arena) :
              /\ i <= Len(dec.node_arena)
              /\ \A f \in ScalarFields : dec.node_arena[i][f] = game.node_arena[i][f]
              /\ (~is_terminal(game.node_arena[i]) /\ game.node_arena[i].storage1 # NULL)
                    => SameStorage(game.node_arena[i], dec.node_arena[i])

C1_Witness ==
    /\ RoundTripDone
    /\ result = "Ok"
    /\ \E i \in 1..Len(dec.node_arena) :
          /\ ~is_terminal(dec.node_arena[i]) /\ ~is_chance(dec.node_arena[i])
          /\ dec.node_arena[i].storage1 > dec.storage1.addr
          /\ dec.node_arena[i].storage1 # game.node_arena[i].storage1

TagDiffers == Len(input) >= 1 /\ input[1].t = "String" /\ input[1].v # VERSION_STR

\* C2 (version gate): a decode whose stream starts with another version tag
\* consumes nothing after the tag, never calls the tree builder, and ends
\* with the version-mismatch error and no instance.
C2_VersionGate ==
    (mode = "decode" /\ TagDiffers) =>
        /\ pos <= 1
        /\ ~Happened("builder")
        /\ result \in {"none", "Err"}
        /\ pc = "done" => (result = "Err" /\ err = "VersionMismatch" /\ pos = 1
                           /\ EventsOf("read") = << "version" >>)

C2_Witness ==
    mode = "decode" /\ TagDiffers /\ pc = "done" /\ err = "VersionMismatch"

\* C3 (malformed stream): a decode that meets a truncated stream, or a tree
\* configuration or edit line the tree builder rejects, ends by returning an
\* error.
C3_MalformedReturnsErr ==
    (mode = "decode" /\ pc = "done" /\ corrupt \in {"trunc", "config", "added", "removed"})
        => result = "Err"

IsActionWithStorage(node) == ~is_terminal(node) /\ ~is_chance(node) /\ node.storage1 # NULL

\* C4 (mirrored offsets): every decoded action node with storage has the same
\* offset in primary-B as in primary-A; the stream holds exactly two offsets
\* for it, the primary-A and the in-position offset of the encoded node; and
\* its primary-B reference is the primary-B base plus the primary-A offset.
C4_MirroredOffset ==
    mode = "decode" =>
        \A i \in 1..Len(dec.node_arena) :
            LET b == dec.node_arena[i]
                a == game.node_arena[i]
                p == nodeLog[i].start
            IN IsActionWithStorage(b) =>
                 /\ b.storage2 - dec.storage2.addr = b.storage1 - dec.storage1.addr
                 /\ input[p + 1].f = "offset"
                 /\ input[p + 1].v = a.storage1 - game.storage1.addr
                 /\ input[p + 2].f = "offset_ip"
                 /\ input[p + 2].v = a.storage3 - game.storage_ip.addr
                 /\ (p + 3 <= Len(input) => input[p + 3].t # "isize")
                 /\ b.storage2 = dec.storage2.addr + input[p + 1].v

C4_Witness ==
    /\ mode = "decode" /\ pc = "done" /\ result = "Ok"
    /\ \E i \in 1..Len(dec.node_arena) :
          /\ IsActionWithStorage(dec.node_arena[i])
          /\ dec.node_arena[i].storage1 - dec.storage1.addr
               # dec.node_arena[i].storage3 - dec.storage_ip.addr

AllNull(node) == node.storage1 = NULL /\ node.storage2 = NULL /\ node.storage3 = NULL

\* C5 (null safety): for an instance below MemoryAllocated, once the call has
\* stored the bases every base is null, encode writes no offset and decode
\* reads none, and every decoded node has null storage references.
C5_NullSafety ==
    /\ (mode = "encode" /\ game.state < MemoryAllocated) =>
          /\ Cells = NullCells
          /\ \A k \in 1..Len(stream) : stream[k].t # "isize"
          /\ \A i \in 1..Len(nodeLog) : nodeLog[i].n = 0
    /\ (mode = "decode" /\ Happened("set_bases") /\ dec.state < MemoryAllocated) =>
          /\ Cells = NullCells
          /\ \A i \in 1..Len(nodeLog) : nodeLog[i].n = 0
          /\ \A i \in 1..Len(dec.node_arena) : AllNull(dec.node_arena[i])

C5_Witness ==
    /\ mode = "decode" /\ pc = "done" /\ result = "Ok"
    /\ dec.state < MemoryAllocated
    /\ entry.ip # NULL
    /\ \E i \in 1..Len(dec.node_arena) : ~is_terminal(dec.node_arena[i])

FieldOrder ==
    << "version", "tree_config", "added_lines", "removed_lines", "state",
       "card_config", "num_combinations", "is_compression_enabled",
       "num_storage_actions", "num_storage_chances", "misc_memory_usage",
       "storage1", "storage2", "storage_ip", "storage_chance",
       "locking_strategy", "history", "is_normalized_weight_cached", "node_arena" >>

HeaderWritten == SubSeq(EventsOf("write"), 1,
                        IF Len(stream) < Len(FieldOrder) THEN Len(stream) ELSE Len(FieldOrder))

\* C6 (field order): the fields encode writes, and the fields decode
\* consumes, are in both cases the fixed sequence from version tag to node
\* arena; decode consumes each field at the position encode wrote it.
C6_FieldOrder ==
    /\ mode = "encode" =>
          /\ IsPrefix(HeaderWritten, FieldOrder)
          /\ result = "Ok" => HeaderWritten = FieldOrder
    /\ mode = "decode" =>
          /\ IsPrefix(EventsOf("read"), FieldOrder)
          /\ \A k \in 1..Len(EventsOf("read")) : input[k].f = EventsOf("read")[k]
          /\ (pc = "done" /\ result = "Ok") => EventsOf("read") = FieldOrder

C6_Witness ==
    mode = "decode" /\ pc = "done" /\ result = "Ok" /\ dec.state >= MemoryAllocated

InitSteps == << "init_hands", "init_card_fields", "init_interpreter", "apply_history" >>

\* C7 (post-decode reconstruction): the four initialisation steps run, in
\* order and after the node arena is decoded, exactly when the decode
\* succeeds with a lifecycle state >= TreeBuilt, and apply_history gets the
\* persisted history; cache_normalized_weights follows exactly when the
\* persisted flag is also set; otherwise none of them runs.
C7_Reconstruction ==
    mode = "decode" =>
        /\ ~(pc = "done" /\ result = "Ok") => (EventsOf("call") = << >> /\ applied = << >>)
        /\ (pc = "done" /\ result = "Ok") =>
              /\ Persisted("state") >= TreeBuilt =>
                    /\ EventsOf("call")
                         = IF Persisted("is_normalized_weight_cached")
                           THEN Append(InitSteps, "cache_normalized_weights")
                           ELSE InitSteps
                    /\ applied = << Persisted("history") >>
              /\ Persisted("state") < TreeBuilt =>
                    (EventsOf("call") = << >> /\ applied = << >>)
              /\ \A i, j \in 1..Len(trace) :
                    (trace[i].ev = "call" /\ trace[j].ev # "call") => j < i

C7_Witness ==
    /\ mode = "decode" /\ pc = "done" /\ result = "Ok"
    /\ Persisted("state") >= TreeBuilt
    /\ Persisted("history") # << >>
    /\ Len(EventsOf("call")) = 5

\* Offsets the stream holds right after the token at position p.
OffsetsAt(s, p) ==
    IF p + 1 <= Len(s) /\ s[p + 1].t = "isize"
    THEN IF p + 2 <= Len(s) /\ s[p + 2].t = "isize" THEN 2 ELSE 1
    ELSE 0

ExpectedOffsets(node) ==
    IF is_terminal(node) \/ node.storage1 = NULL THEN 0
    ELSE IF is_chance(node) THEN 1 ELSE 2

\* C8 (node decode mirrors node encode): in a round trip, decode starts every
\* node at that node's scalar fields and consumes as many offsets as encode
\* wrote for it: none for a terminal node or a node without storage, one
\* for a chance node with storage, two for an action node with storage.
C8_NodeMirror ==
    /\ (mode = "decode" /\ corrupt = "none") =>
          \A i \in 1..Len(nodeLog) :
              LET p == nodeLog[i].start
              IN /\ i <= Len(game.node_arena)
                 /\ p <= Len(input)
                 /\ input[p].f = "scalars"
                 /\ input[p].v.prev_action = game.node_arena[i].prev_action
                 /\ nodeLog[i].n = OffsetsAt(input, p)
                 /\ nodeLog[i].n = ExpectedOffsets(game.node_arena[i])
    /\ (mode = "encode" /\ result = "Ok") =>
          \A i \in 1..Len(nodeLog) :
              /\ nodeLog[i].n = OffsetsAt(stream, nodeLog[i].start)
              /\ nodeLog[i].n = ExpectedOffsets(game.node_arena[i])

C8_Witness ==
    /\ RoundTripDone /\ result = "Ok"
    /\ Len(nodeLog) >= 2
    /\ nodeLog[1].n > 0
    /\ nodeLog[2].start = nodeLog[1].start + 1 + nodeLog[1].n

\* C9 (decode step order): the tree is rebuilt from the decoded
\* configuration and edit log before the lifecycle state and the arenas are
\* read; the bases are stored after all four arenas are read and before any
\* node is decoded; every base stored is null or the address of the decoded
\* instance's own arena (the address when lifecycle >= MemoryAllocated), and
\* never the address of an arena of the encoded instance.
C9_StepOrder ==
    mode = "decode" =>
        /\ \A i \in 1..Len(trace) :
              /\ (trace[i].ev = "read" /\ trace[i].arg \in ({"state"} \cup Arenas))
                    => Before(i, "builder", "eject")
              /\ (trace[i].ev = "builder" /\ trace[i].arg = "new")
                    => (Before(i, "read", "tree_config") /\ Before(i, "read", "added_lines")
                        /\ Before(i, "read", "removed_lines"))
              /\ trace[i].ev = "set_bases"
                    => \A a \in Arenas : Before(i, "read", a)
              /\ trace[i].ev = "node" => Before(i, "set_bases", "decode")
        /\ nodeLog # << >> => Happened("set_bases")
        /\ Happened("set_bases") =>
              /\ ACTION_BASE[1] \in {NULL, dec.storage1.addr}
              /\ ACTION_BASE[2] \in {NULL, dec.storage2.addr}
              /\ IP_BASE \in {NULL, dec.storage_ip.addr}
              /\ CHANCE_BASE \in {NULL, dec.storage_chance.addr}
              /\ dec.state >= MemoryAllocated =>
                    (ACTION_BASE[1] # NULL /\ ACTION_BASE[2] # NULL /\ IP_BASE # NULL
                     /\ CHANCE_BASE # NULL)
              /\ {ACTION_BASE[1], ACTION_BASE[2], IP_BASE, CHANCE_BASE}
                   \cap {game.storage1.addr, game.storage2.addr, game.storage_ip.addr,
                         game.storage_chance.addr} = {}

C9_Witness ==
    /\ mode = "decode" /\ pc = "done" /\ result = "Ok"
    /\ dec.state >= MemoryAllocated
    /\ entry.ip = game.storage_ip.addr
    /\ IP_BASE = dec.storage_ip.addr
    /\ Len(dec.node_arena) >= 2

\* The bases a call stores from its own instance.
OwnBase(b) ==
    LET own == IF mode = "encode" THEN game ELSE dec
    IN IF own.state < MemoryAllocated THEN NULL
       ELSE CASE b = "action1" -> own.storage1.addr
              [] b = "action2" -> own.storage2.addr
              [] b = "ip" -> own.storage_ip.addr
              [] b = "chance" -> own.storage_chance.addr

\* C10 (no leakage between calls): in any sequence of encode and decode
\* calls on the thread, failed ones included, every base a node reads while
\* it is encoded or decoded is the one this call stored from its own
\* instance: the arena's address, or null below MemoryAllocated.
C10_NoLeakage ==
    \A i \in 1..Len(nodeLog) :
        \A k \in 1..Len(nodeLog[i].reads) :
            nodeLog[i].reads[k].v = OwnBase(nodeLog[i].reads[k].b)

C10_Witness ==
    /\ mode = "decode"
    /\ entry.ip # NULL
    /\ dec.state < MemoryAllocated
    /\ \E i \in 1..Len(nodeLog) : nodeLog[i].reads # << >>

====
